---- MODULE Spec2Model ----
(***************************************************************************)
(* DopaLAN match-discovery API (src/server.js): the in-memory match        *)
(* registry (register, heartbeat, list, unregister, health, stats) behind  *)
(* the sliding-window rate limiting middleware.  Every request runs to     *)
(* completion on the single event-loop thread, so one request is one step. *)
(***************************************************************************)
EXTENDS Integers, Sequences, FiniteSets, TLC

\* ------------------------------------------------------------------ bounds
\* Per specification: how often the clock advances, how many calls a key
\* receives in one rate window, how many matches register stores in all.
LifeTicks == 1
LifeBurst == 2
LifeUuid == 2
RegTicks == 1
RegBurst == 2
RegUuid == 2
StaleTicks == 1
StaleBurst == 1
StaleUuid == 1
RateTicks == 2
RateBurst == 16
ViewTicks == 2
ViewUuid == 2
FloodTicks == 2
FloodBurst == 30
DenyTicks == 1
DenyBurst == 16
DenyUuid == 1
PathTicks == 1
PathUuid == 1
CrowdTicks == 1
CrowdLists == 1
CrowdUuid == 101

\* ------------------------------------------------------- program constants
RateWindow == 60000      \* now - t < 60000
RateMax == 15            \* recent.length > 15
ActiveWindow == 120000   \* now - m.lastHeartbeat < 120000
RecentWindow == 30000    \* (now - m.lastHeartbeat) < 30000
ListMax == 100           \* .slice(0, 100)
DefaultMaxPlayers == 8   \* maxPlayers = 8
MsPerMinute == 60000     \* / 1000 / 60


\* -------------------------------------------------------------- JS values
\* A JavaScript value of a request body: undefined, a number (NaN apart) or a
\* string (a sequence of one-character strings).
Undef == [t |-> "undefined", n |-> 0, s |-> <<>>]
NaN == [t |-> "NaN", n |-> 0, s |-> <<>>]
Num(k) == [t |-> "number", n |-> k, s |-> <<>>]
Str(x) == [t |-> "string", n |-> 0, s |-> x]

IsSpace(c) == c = " "
Digits == <<"0", "1", "2", "3", "4", "5", "6", "7", "8", "9">>
IsDigit(c) == \E i \in 1..10 : Digits[i] = c
DigitVal(c) == (CHOOSE i \in 1..10 : Digits[i] = c) - 1

\* String.prototype.trim on the characters of a string.
RECURSIVE TrimStart(_)
TrimStart(x) == IF x # <<>> /\ IsSpace(Head(x)) THEN TrimStart(Tail(x)) ELSE x
RECURSIVE TrimEnd(_)
TrimEnd(x) ==
  IF x # <<>> /\ IsSpace(x[Len(x)]) THEN TrimEnd(SubSeq(x, 1, Len(x) - 1)) ELSE x
Trim(x) == TrimEnd(TrimStart(x))

\* v?.trim(): undefined short-circuits, a string is trimmed.
OptTrim(v) == IF v.t = "string" THEN Str(Trim(v.s)) ELSE Undef

\* ToBoolean: undefined, NaN, 0 and "" are falsy.
Truthy(v) ==
  CASE v.t = "undefined" -> FALSE
    [] v.t = "NaN" -> FALSE
    [] v.t = "number" -> v.n # 0
    [] OTHER -> v.s # <<>>

\* Number -> decimal string (ToString of an integer, of NaN).
RECURSIVE NatToStr(_)
NatToStr(k) ==
  IF k < 10 THEN <<Digits[k + 1]>> ELSE NatToStr(k \div 10) \o <<Digits[(k % 10) + 1]>>
ToStr(v) ==
  CASE v.t = "NaN" -> <<"N", "a", "N">>
    [] v.t = "number" -> IF v.n < 0 THEN <<"-">> \o NatToStr(-v.n) ELSE NatToStr(v.n)
    [] v.t = "undefined" -> <<"u", "n", "d", "e", "f", "i", "n", "e", "d">>
    [] OTHER -> v.s

\* The longest prefix of decimal digits of x, as a number (acc digits so far).
RECURSIVE DigitPrefix(_, _, _)
DigitPrefix(x, acc, seen) ==
  IF x # <<>> /\ IsDigit(Head(x))
  THEN DigitPrefix(Tail(x), acc * 10 + DigitVal(Head(x)), TRUE)
  ELSE [val |-> acc, any |-> seen]

\* parseInt(v): ToString, skip leading white space, an optional sign, then the
\* digit prefix; NaN when there is no digit.
ParseInt(v) ==
  LET x == TrimStart(ToStr(v))
      neg == x # <<>> /\ Head(x) = "-"
      body == IF x # <<>> /\ (Head(x) = "-" \/ Head(x) = "+") THEN Tail(x) ELSE x
      p == DigitPrefix(body, 0, FALSE)
  IN IF p.any THEN Num(IF neg THEN -p.val ELSE p.val) ELSE NaN

\* ------------------------------------------------------------------ state
VARIABLES
  now,        \* Date.now(), ms since the server started
  matches,    \* the Map `matches`, its values in insertion order
  rateLimit,  \* the Map `rateLimit`: key -> timestamps, for the keys it holds
  uuidCount,  \* how many ids crypto.randomUUID() has produced
  resp,       \* the request just served and its response
  created,    \* history: the stored matches as their register stored them
  removed,    \* history: the ids a successful unregister deleted
  issued,     \* history: the ids register returned, in order
  calls,      \* history: the time of every request to WatchedKey, in order
  runs        \* history: when the register handler ran for Hosts[1], last 60000 ms

vars == <<now, matches, rateLimit, uuidCount, resp, created, removed, issued, calls, runs>>

\* The callers, in the order they take turns where a specification has many.
Hosts == <<"10.0.0.1", "10.0.0.2", "10.0.0.3", "10.0.0.4", "10.0.0.5", "10.0.0.6",
           "10.0.0.7", "10.0.0.8">>
IPs == {Hosts[i] : i \in 1..Len(Hosts)}
Methods == {"GET", "POST"}
Paths ==
  {"/api/matches/register", "/api/matches/heartbeat", "/api/matches/list",
   "/api/matches/unregister", "/health", "/stats", "/api/matches/register/"}
\* A key that forgets the path.
KeyOfIp(ip, path) == <<ip, "/health">>

\* `${ip}:${req.path}`: an ip holds no "/" and a path starts with one, so the
\* string determines the pair.
Key(ip, path) == <<ip, path>>

\* The id a request carries: 0 is a value randomUUID never returns (absent, or
\* any other text); k >= 1 is the k-th id randomUUID returns.

\* ----------------------------------------------------------- rate limiter
\* A filter that keeps a call exactly 60000 ms old.
RateRecentInclusive(requests, t) == SelectSeq(requests, LAMBDA x : t - x <= RateWindow)

\* requests.filter(t => now - t < 60000)
RateRecent(requests, t) == SelectSeq(requests, LAMBDA x : t - x < RateWindow)

\* A threshold test that is off by one.
RateExceededAtLimit(recent) == Len(recent) >= RateMax

\* recent.length > 15
RateExceeded(recent) == Len(recent) > RateMax

\* A middleware that stores the calls it allows and forgets those it denies.
AdmitForgetful(history, t) ==
  LET recent == RateRecent(Append(history, t), t)
  IN [history |-> IF RateExceeded(recent) THEN RateRecent(history, t) ELSE recent,
      allowed |-> ~RateExceeded(recent)]

\* The middleware: push now, filter, store, then test the length.
Admit(history, t) ==
  LET requests == Append(history, t)
      recent == RateRecent(requests, t)
  IN [history |-> recent, allowed |-> ~RateExceeded(recent)]

\* --------------------------------------------------------------- registry
Ids(ms) == {ms[i].id : i \in 1..Len(ms)}

\* A lookup that finds an entry for a request without an id.
HasLoose(ms, id) == id = 0 \/ id \in Ids(ms)

\* matches.get(id) finds an entry; matches.delete(id) returns true.
Has(ms, id) == id \in Ids(ms)
Get(ms, id) == ms[CHOOSE i \in 1..Len(ms) : ms[i].id = id]

\* A generator that returns one id over and over.
RandomUUIDFixed(count) == 1

\* crypto.randomUUID(): a version-4 UUID; modelled by its contract, a value
\* no earlier call returned.
RandomUUID(count) == count + 1

\* A required-field test that does not trim.
MissingFieldsUntrimmed(body) ==
  \/ ~Truthy(body.hostName)
  \/ ~Truthy(body.proxyAddress)
  \/ ~Truthy(body.proxyPort)
  \/ ~Truthy(body.map)

\* if (!hostName?.trim() || !proxyAddress?.trim() || !proxyPort || !map?.trim())
MissingFields(body) ==
  \/ ~Truthy(OptTrim(body.hostName))
  \/ ~Truthy(OptTrim(body.proxyAddress))
  \/ ~Truthy(body.proxyPort)
  \/ ~Truthy(OptTrim(body.map))

\* const { ..., maxPlayers = 8 } = req.body
MaxPlayersOf(body) ==
  IF body.maxPlayers.t = "undefined" THEN Num(DefaultMaxPlayers) ELSE body.maxPlayers

\* A match object whose two timestamps are taken in the other order.
NewMatchSwapped(id, body, t1, t2) ==
  [id |-> id,
   hostName |-> Trim(body.hostName.s),
   proxyAddress |-> Trim(body.proxyAddress.s),
   proxyPort |-> ParseInt(body.proxyPort),
   map |-> Trim(body.map.s),
   maxPlayers |-> MaxPlayersOf(body),
   playersConnected |-> 0,
   createdAt |-> t2,
   lastHeartbeat |-> t1]

\* The match object register builds; t1 and t2 are its two reads of Date.now().
NewMatch(id, body, t1, t2) ==
  [id |-> id,
   hostName |-> Trim(body.hostName.s),
   proxyAddress |-> Trim(body.proxyAddress.s),
   proxyPort |-> ParseInt(body.proxyPort),
   map |-> Trim(body.map.s),
   maxPlayers |-> MaxPlayersOf(body),
   playersConnected |-> 0,
   createdAt |-> t1,
   lastHeartbeat |-> t2]

\* matches.set(id, match): a new key goes last, a present key keeps its place.
MapSet(ms, id, m) ==
  IF Has(ms, id)
  THEN [i \in 1..Len(ms) |-> IF ms[i].id = id THEN m ELSE ms[i]]
  ELSE Append(ms, m)

\* A heartbeat that refreshes every stored match.
BeatAll(ms, id, t) == [i \in 1..Len(ms) |-> [ms[i] EXCEPT !.lastHeartbeat = t]]

\* A heartbeat that refreshes a match only while it is still active.
BeatIfActive(ms, id, t) ==
  [i \in 1..Len(ms) |->
     IF ms[i].id = id /\ t - ms[i].lastHeartbeat < ActiveWindow
     THEN [ms[i] EXCEPT !.lastHeartbeat = t]
     ELSE ms[i]]

\* match.lastHeartbeat = Date.now()
Beat(ms, id, t) ==
  [i \in 1..Len(ms) |-> IF ms[i].id = id THEN [ms[i] EXCEPT !.lastHeartbeat = t] ELSE ms[i]]

\* A delete that works on a copy and leaves the map as it was.
MapDeleteCopy(ms, id) == ms

\* matches.delete(id)
MapDelete(ms, id) == SelectSeq(ms, LAMBDA m : m.id # id)

\* An active test that keeps a match whose heartbeat is exactly 120000 ms old.
ActiveInclusive(m, t) == t - m.lastHeartbeat <= ActiveWindow

\* now - m.lastHeartbeat < 120000
Active(m, t) == t - m.lastHeartbeat < ActiveWindow

\* A recent test that counts a heartbeat exactly 30000 ms old.
IsRecentInclusive(m, t) == t - m.lastHeartbeat <= RecentWindow

\* (now - m.lastHeartbeat) < 30000
IsRecent(m, t) == t - m.lastHeartbeat < RecentWindow

\* Math.floor((now - m.createdAt) / 1000 / 60)
Age(m, t) == (t - m.createdAt) \div MsPerMinute

\* The object list's .map() builds for one match.
View(m, t) ==
  [id |-> m.id,
   hostName |-> m.hostName,
   proxyAddress |-> m.proxyAddress,
   proxyPort |-> m.proxyPort,
   proxyUrl |-> m.proxyAddress \o <<":">> \o ToStr(m.proxyPort),
   map |-> m.map,
   maxPlayers |-> m.maxPlayers,
   playersConnected |-> m.playersConnected,
   age |-> Age(m, t),
   isRecent |-> IsRecent(m, t)]

\* v.lastHeartbeat of a view: the views carry no such property, so undefined.
ViewLastHeartbeat(v) ==
  IF "lastHeartbeat" \in DOMAIN v THEN Num(v.lastHeartbeat) ELSE Undef

\* b.lastHeartbeat - a.lastHeartbeat: NaN unless both are numbers.
SortCmp(a, b) ==
  LET x == ViewLastHeartbeat(b)
      y == ViewLastHeartbeat(a)
  IN IF x.t = "number" /\ y.t = "number" THEN Num(x.n - y.n) ELSE NaN

\* Array.prototype.sort's reading of a comparator result: NaN counts as +0.
CmpSign(c) == IF c.t = "number" THEN c.n ELSE 0

\* Array.prototype.sort, stable: a goes before b when the comparator says so,
\* and on a tie when it came first; an element's rank is its place in the
\* sorted array.
SortBefore(xs, j, i) ==
  LET c == CmpSign(SortCmp(xs[j], xs[i]))
  IN c < 0 \/ (c = 0 /\ j < i)
SortRank(xs, i) == Cardinality({j \in 1..Len(xs) : j # i /\ SortBefore(xs, j, i)}) + 1
StableSort(xs) ==
  LET ranked == {<<SortRank(xs, i), i>> : i \in 1..Len(xs)}
  IN [k \in 1..Len(xs) |-> xs[(CHOOSE p \in ranked : p[1] = k)[2]]]

\* A slice that keeps the whole array.
SliceAll(xs, n) == xs

\* .slice(0, 100)
Slice(xs, n) == SubSeq(xs, 1, IF Len(xs) < n THEN Len(xs) ELSE n)

\* Array.from(matches.values()).filter(active)
ActiveMatches(ms, t) == SelectSeq(ms, LAMBDA m : Active(m, t))

MapSeq(xs, t) == [i \in 1..Len(xs) |-> View(xs[i], t)]

\* The array list returns: filter, map, sort, slice.
ListResult(ms, t) == Slice(StableSort(MapSeq(ActiveMatches(ms, t), t)), ListMax)

\* The active count of /health and /stats.
ActiveCount(ms, t) == Len(ActiveMatches(ms, t))

\* --------------------------------------------------------------- requests
NoBody == [hostName |-> Undef, proxyAddress |-> Undef, proxyPort |-> Undef,
           map |-> Undef, maxPlayers |-> Undef]

\* The lastHeartbeat stored under an id, 0 when there is none.
LastBeat(ms, id) ==
  LET found == SelectSeq(ms, LAMBDA m : m.id = id)
  IN IF found = <<>> THEN 0 ELSE found[1].lastHeartbeat

\* What a step records of the request it served (at: when the middleware read
\* the clock; was: the lastHeartbeat a heartbeat overwrote) and of the
\* response it sent.
Response(op, ip, method, path, status) ==
  [op |-> op, ip |-> ip, method |-> method, path |-> path, status |-> status,
   at |-> now,
   body |-> NoBody, id |-> 0, newId |-> 0, proxyUrl |-> <<>>, matches |-> <<>>,
   total |-> 0, timestamp |-> 0, stored |-> 0, active |-> 0, was |-> 0]

NoResponse == [Response("none", "", "", "", 0) EXCEPT !.at = 0]

\* Express matches a route path with strict routing off, the default of
\* express(): one trailing "/" of the requested path is optional.
RoutePath(path) ==
  IF Len(path) > 1 /\ SubSeq(path, Len(path), Len(path)) = "/"
  THEN SubSeq(path, 1, Len(path) - 1)
  ELSE path

\* Express's route table: the handler of a method and path, "notfound" for the
\* final app.use.
Route(method, path) ==
  LET route == RoutePath(path)
  IN CASE method = "POST" /\ route = "/api/matches/register" -> "register"
       [] method = "POST" /\ route = "/api/matches/heartbeat" -> "heartbeat"
       [] method = "GET" /\ route = "/api/matches/list" -> "list"
       [] method = "POST" /\ route = "/api/matches/unregister" -> "unregister"
       [] method = "GET" /\ route = "/health" -> "health"
       [] method = "GET" /\ route = "/stats" -> "stats"
       [] OTHER -> "notfound"

\* The key whose requests the history variable `calls` logs.
WatchedKey == Key("10.0.0.1", "/health")

\* A middleware that lets every request through.
AllowedAlways(ip, path) == TRUE

\* The array the middleware works on: the key's entry, [] set for a new key.
HistoryIn(map, key) == IF key \in DOMAIN map THEN map[key] ELSE <<>>
HistoryOf(ip, path) == HistoryIn(rateLimit, Key(ip, path))

\* The middleware's verdict on a request arriving now, and its write.
Allowed(ip, path) == Admit(HistoryOf(ip, path), now).allowed
Through(ip, path) ==
  /\ rateLimit' = [k \in DOMAIN rateLimit \cup {Key(ip, path)} |->
                     IF k = Key(ip, path)
                     THEN Admit(HistoryOf(ip, path), now).history
                     ELSE rateLimit[k]]
  /\ calls' = IF Key(ip, path) = WatchedKey THEN Append(calls, now) ELSE calls

Init ==
  /\ now = 0
  /\ matches = <<>>
  /\ rateLimit = [k \in {} |-> <<>>]
  /\ uuidCount = 0
  /\ resp = NoResponse
  /\ created = {}
  /\ removed = {}
  /\ issued = <<>>
  /\ calls = <<>>
  /\ runs = <<>>

\* Time passes between two requests.
Tick(ms) ==
  /\ now' = now + ms
  /\ resp' = NoResponse
  /\ UNCHANGED <<matches, rateLimit, uuidCount, created, removed, issued, calls, runs>>

\* A request the middleware answers 429: no handler runs.
Denied(ip, method, path) ==
  /\ ~Allowed(ip, path)
  /\ Through(ip, path)
  /\ resp' = Response("denied", ip, method, path, 429)
  /\ UNCHANGED <<now, matches, uuidCount, created, removed, issued, runs>>

\* POST /api/matches/register; the clock gains d between the handler's two
\* reads of Date.now().
RegisterVia(ip, path, body, d) ==
  LET id == RandomUUID(uuidCount)
      m == NewMatch(id, body, now, now + d)
  IN /\ Route("POST", path) = "register"
     /\ Allowed(ip, path)
     /\ Through(ip, path)
     /\ runs' = IF ip = Hosts[1] THEN Append(RateRecent(runs, now), now) ELSE runs
     /\ IF MissingFields(body)
        THEN /\ resp' = [Response("register", ip, "POST", path, 400) EXCEPT !.body = body]
             /\ UNCHANGED <<now, matches, uuidCount, created, issued>>
        ELSE /\ uuidCount' = uuidCount + 1
             /\ matches' = MapSet(matches, id, m)
             /\ created' = {c \in created : c.id # id} \cup {m}
             /\ issued' = Append(issued, id)
             /\ now' = now + d
             /\ resp' = [Response("register", ip, "POST", path, 200) EXCEPT
                           !.body = body, !.newId = id,
                           !.proxyUrl = ToStr(body.proxyAddress)
                                          \o <<":">> \o ToStr(body.proxyPort)]
     /\ UNCHANGED removed

\* The register request as clients send it, by the path of app.post.
Register(ip, body, d) == RegisterVia(ip, "/api/matches/register", body, d)

\* POST /api/matches/heartbeat
Heartbeat(ip, id) ==
  LET path == "/api/matches/heartbeat"
  IN /\ Allowed(ip, path)
     /\ Through(ip, path)
     /\ IF ~Has(matches, id)
        THEN /\ resp' = [Response("heartbeat", ip, "POST", path, 404) EXCEPT !.id = id]
             /\ UNCHANGED matches
        ELSE /\ matches' = Beat(matches, id, now)
             /\ resp' = [Response("heartbeat", ip, "POST", path, 200) EXCEPT
                           !.id = id, !.was = LastBeat(matches, id)]
     /\ UNCHANGED <<now, uuidCount, created, removed, issued, runs>>

\* GET /api/matches/list
List(ip) ==
  LET path == "/api/matches/list"
      activeMatches == ListResult(matches, now)
  IN /\ Allowed(ip, path)
     /\ Through(ip, path)
     /\ resp' = [Response("list", ip, "GET", path, 200) EXCEPT
                   !.matches = activeMatches, !.total = Len(activeMatches),
                   !.timestamp = now]
     /\ UNCHANGED <<now, matches, uuidCount, created, removed, issued, runs>>

\* POST /api/matches/unregister
Unregister(ip, id) ==
  LET path == "/api/matches/unregister"
  IN /\ Allowed(ip, path)
     /\ Through(ip, path)
     /\ IF Has(matches, id)
        THEN /\ matches' = MapDelete(matches, id)
             /\ removed' = removed \cup {id}
             /\ created' = {c \in created : c.id # id}
             /\ resp' = [Response("unregister", ip, "POST", path, 200) EXCEPT !.id = id]
        ELSE /\ resp' = [Response("unregister", ip, "POST", path, 404) EXCEPT !.id = id]
             /\ UNCHANGED <<matches, removed, created>>
     /\ UNCHANGED <<now, uuidCount, issued, runs>>

\* GET /health (its filter reads Date.now() per match; the clock is taken not
\* to advance inside the one filter call)
Health(ip) ==
  LET path == "/health"
  IN /\ Allowed(ip, path)
     /\ Through(ip, path)
     /\ resp' = [Response("health", ip, "GET", path, 200) EXCEPT
                   !.stored = Len(matches), !.active = ActiveCount(matches, now)]
     /\ UNCHANGED <<now, matches, uuidCount, created, removed, issued, runs>>

\* GET /stats
Stats(ip) ==
  LET path == "/stats"
  IN /\ Allowed(ip, path)
     /\ Through(ip, path)
     /\ resp' = [Response("stats", ip, "GET", path, 200) EXCEPT
                   !.stored = Len(matches), !.active = ActiveCount(matches, now)]
     /\ UNCHANGED <<now, matches, uuidCount, created, removed, issued, runs>>

\* The final app.use: no route matches the method and path.
NotFound(ip, method, path) ==
  /\ Route(method, path) = "notfound"
  /\ Allowed(ip, path)
  /\ Through(ip, path)
  /\ resp' = Response("notfound", ip, method, path, 404)
  /\ UNCHANGED <<now, matches, uuidCount, created, removed, issued, runs>>

\* ------------------------------------------------------------- the inputs
\* A well-formed register body, and the bodies that differ from it in one field.
GoodBody == [hostName |-> Str(<<" ", "a", " ">>), proxyAddress |-> Str(<<"h">>),
             proxyPort |-> Num(80), map |-> Str(<<"m">>), maxPlayers |-> Undef]

HostNames == {Undef, Str(<<>>), Str(<<" ">>)}
Addresses == {Undef, Str(<<" ", " ">>)}
Ports == {Undef, Num(0), Num(-1), Str(<<>>), Str(<<"0">>), Str(<<" ", "7", "a">>),
          Str(<<"a">>)}
Maps == {Undef, Str(<<>>)}
MaxPlayers == {Num(4)}

Bodies ==
  {GoodBody}
    \cup {[GoodBody EXCEPT !.hostName = v] : v \in HostNames}
    \cup {[GoodBody EXCEPT !.proxyAddress = v] : v \in Addresses}
    \cup {[GoodBody EXCEPT !.proxyPort = v] : v \in Ports}
    \cup {[GoodBody EXCEPT !.map = v] : v \in Maps}
    \cup {[GoodBody EXCEPT !.maxPlayers = v] : v \in MaxPlayers}

Host == "10.0.0.1"

\* The traffic a specification explores.  A key receives at most `burst` calls
\* in a trailing rate window.
Budget(ip, path, burst) == Len(RateRecent(HistoryOf(ip, path), now)) < burst
\* The caller's earlier requests to the route have all left its window.
Quiet(ip, path) == RateRecent(HistoryOf(ip, path), now) = <<>>

\* register stores at most `uuids` matches in all.
Room(body, uuids) == MissingFields(body) \/ uuidCount < uuids

\* The clock gains at most one ms in all between reads inside a handler.
Drifts == {d \in {0, 1} : (now % RecentWindow) + d <= 1}

\* ------------------------------------------------------ the specifications
\* The life of matches: one host registers, refreshes, lists and unregisters.
LifeNext ==
  \/ now < LifeTicks * RateWindow /\ Tick(RateWindow)
  \/ /\ Budget(Host, "/api/matches/register", LifeBurst)
     /\ Room(GoodBody, LifeUuid)
     /\ Register(Host, GoodBody, 0)
  \/ \E id \in 0..LifeUuid :
       Budget(Host, "/api/matches/heartbeat", LifeBurst) /\ Heartbeat(Host, id)
  \/ Quiet(Host, "/api/matches/list") /\ List(Host)
  \/ \E id \in 0..LifeUuid :
       Budget(Host, "/api/matches/unregister", LifeBurst) /\ Unregister(Host, id)

Spec == Init /\ [][LifeNext]_vars

\* Registration: every body of Bodies, the clock drifting inside the handler.
RegisterNext ==
  \/ now < RegTicks * RecentWindow /\ Tick(RecentWindow)
  \/ \E body \in Bodies, d \in Drifts :
       /\ Budget(Host, "/api/matches/register", RegBurst)
       /\ Room(body, RegUuid)
       /\ Register(Host, body, d)

SpecRegister == Init /\ [][RegisterNext]_vars

\* Staleness: the clock runs past the active window between the requests.
StaleNext ==
  \/ now < StaleTicks * ActiveWindow /\ Tick(ActiveWindow)
  \/ /\ Budget(Host, "/api/matches/register", StaleBurst)
     /\ Room(GoodBody, StaleUuid)
     /\ Register(Host, GoodBody, 0)
  \/ Budget(Host, "/api/matches/list", StaleBurst) /\ List(Host)
  \/ \E id \in 0..StaleUuid :
       Budget(Host, "/api/matches/unregister", StaleBurst) /\ Unregister(Host, id)
  \/ Budget(Host, "/health", StaleBurst) /\ Health(Host)
  \/ Budget(Host, "/stats", StaleBurst) /\ Stats(Host)

SpecStale == Init /\ [][StaleNext]_vars

\* The rate limiter: one caller floods /health, with GET and with POST.
RateNext ==
  \/ now < RateTicks * RecentWindow /\ Tick(RecentWindow)
  \/ Budget(Host, "/health", RateBurst) /\ Health(Host)
  \/ Budget(Host, "/health", RateBurst) /\ NotFound(Host, "POST", "/health")
  \/ \E method \in Methods :
       Budget(Host, "/health", RateBurst) /\ Denied(Host, method, "/health")
  \/ Budget(Host, "/stats", StaleBurst) /\ Stats(Host)

SpecRate == Init /\ [][RateNext]_vars

\* The listing seen as matches age: the clock moves by the recent window or
\* by the rest of the active window, registrations may see the clock gain a
\* millisecond between their two reads, and the caller sends a request to a
\* route only when its earlier ones have left that route's window.
ViewNext ==
  \/ \E ms \in {RecentWindow, ActiveWindow - RecentWindow} :
       now < ViewTicks * RateWindow /\ Tick(ms)
  \/ \E d \in Drifts :
       /\ Quiet(Host, "/api/matches/register")
       /\ Room(GoodBody, ViewUuid)
       /\ Register(Host, GoodBody, d)
  \/ \E id \in 0..ViewUuid :
       Quiet(Host, "/api/matches/heartbeat") /\ Heartbeat(Host, id)
  \/ Quiet(Host, "/api/matches/list") /\ List(Host)

SpecView == Init /\ [][ViewNext]_vars

\* One caller keeps calling one route, through denials and across windows.
FloodNext ==
  \/ now < FloodTicks * RecentWindow /\ Tick(RecentWindow)
  \/ Budget(Host, "/health", FloodBurst) /\ Health(Host)
  \/ Budget(Host, "/health", FloodBurst) /\ Denied(Host, "GET", "/health")

SpecFlood == Init /\ [][FloodNext]_vars

\* One caller floods the routes that change the registry, one route at a
\* time and each flood to its end before the clock moves, and lists now and
\* then; a second caller registers beside it.
MutatingPaths ==
  {"/api/matches/register", "/api/matches/heartbeat", "/api/matches/unregister"}
Alone(path) == \A other \in MutatingPaths \ {path} : Quiet(Host, other)
Flood(path) == Alone(path) /\ Budget(Host, path, DenyBurst)
Settled(path) ==
  Len(RateRecent(HistoryOf(Host, path), now)) \notin 2..(DenyBurst - 1)
DenyNext ==
  \/ /\ now < DenyTicks * RateWindow
     /\ \A path \in MutatingPaths : Settled(path)
     /\ Tick(RateWindow)
  \/ \E body \in {GoodBody, NoBody} :
       /\ Flood("/api/matches/register")
       /\ Room(body, DenyUuid)
       /\ Register(Host, body, 0)
  \/ \E id \in 0..DenyUuid : Flood("/api/matches/heartbeat") /\ Heartbeat(Host, id)
  \/ \E id \in 0..DenyUuid : Flood("/api/matches/unregister") /\ Unregister(Host, id)
  \/ \E path \in MutatingPaths : Flood(path) /\ Denied(Host, "POST", path)
  \/ Quiet(Host, "/api/matches/list") /\ List(Host)
  \/ /\ Quiet(Hosts[2], "/api/matches/register")
     /\ Room(GoodBody, DenyUuid)
     /\ Register(Hosts[2], GoodBody, 0)

SpecDeny == Init /\ [][DenyNext]_vars

\* One caller registers through every spelling of the path that reaches the
\* register handler.
RegisterPaths == {path \in Paths : Route("POST", path) = "register"}
PathsNext ==
  \/ now < PathTicks * RateWindow /\ Tick(RateWindow)
  \/ \E path \in RegisterPaths : \E body \in {GoodBody, NoBody} :
       Room(body, PathUuid) /\ RegisterVia(Host, path, body, 0)

SpecPaths == Init /\ [][PathsNext]_vars

\* A crowd: callers register in turn, each until the limiter would stop it,
\* so that more than ListMax matches are active at once; the clock moves
\* once the registry holds ListMax matches.
Exhausted(ip, path) == Len(RateRecent(HistoryOf(ip, path), now)) >= RateMax
CrowdNext ==
  \/ /\ now < CrowdTicks * RecentWindow
     /\ Len(matches) >= ListMax
     /\ Tick(RecentWindow)
  \/ \E i \in 1..Len(Hosts) :
       /\ \A j \in 1..(i - 1) : Exhausted(Hosts[j], "/api/matches/register")
       /\ Room(GoodBody, CrowdUuid)
       /\ Register(Hosts[i], GoodBody, 0)
  \/ Budget(Host, "/api/matches/list", CrowdLists) /\ List(Host)

SpecCrowd == Init /\ [][CrowdNext]_vars

\* ----------------------------------------------------------------- claims
Listed == {resp.matches[i].id : i \in 1..Len(resp.matches)}
Others(m) == [m EXCEPT !.lastHeartbeat = 0]

\* C1: list returns its entries by lastHeartbeat descending: of two returned
\* entries the one whose match has the strictly later lastHeartbeat comes first.
C1_ListNewestFirst ==
  resp.op = "list" =>
    \A i, j \in 1..Len(resp.matches) :
      Get(matches, resp.matches[j].id).lastHeartbeat
          > Get(matches, resp.matches[i].id).lastHeartbeat
        => j < i

\* C2: a call to a key is allowed when fewer than 15 earlier calls to that key
\* lie less than 60000 ms before it, and is denied when 15 or more do.
C2_DeniedFromSixteenth ==
  (resp.op # "none" /\ Key(resp.ip, resp.path) = WatchedKey) =>
    LET earlier == {i \in 1..(Len(calls) - 1) : resp.at - calls[i] < 60000}
    IN (resp.status = 429) <=> (Cardinality(earlier) >= 15)

\* C2 witness: the 16th call of a window that began one tick earlier is denied.
C2_Witness ==
  /\ resp.status = 429 /\ Key(resp.ip, resp.path) = WatchedKey
  /\ Len(calls) = 16 /\ calls[1] < resp.at

\* What the claims call an absent or empty field of a register body.
IsAbsent(v) == v.t = "undefined"
IsBlankText(v) == IsAbsent(v) \/ (v.t = "string" /\ \A i \in 1..Len(v.s) : v.s[i] = " ")
IsEmptyPort(v) == IsAbsent(v) \/ (v.t = "string" /\ v.s = <<>>)
IsIntegerLike(v) == ~IsAbsent(v) /\ ParseInt(v).t = "number"

\* C3: register with hostName, proxyAddress or map absent or blank, or
\* proxyPort absent or empty, is answered 400 and leaves the registry as it was.
C3_MissingFieldRejected ==
  [][(/\ resp'.op = "register"
      /\ \/ IsBlankText(resp'.body.hostName)
         \/ IsBlankText(resp'.body.proxyAddress)
         \/ IsEmptyPort(resp'.body.proxyPort)
         \/ IsBlankText(resp'.body.map))
       => (resp'.status = 400 /\ matches' = matches)
    ]_vars

\* C3 witness: a register with a blank host name rejected while a match is stored.
C3_Witness ==
  /\ resp.op = "register" /\ resp.status = 400
  /\ resp.body.hostName = Str(<<" ">>)
  /\ Len(matches) = 1

\* C4: register is answered 400 whenever proxyPort is not coercible to an
\* integer, so every stored match's proxyPort is an integer.
C4_NonIntegerPortRejected ==
  /\ (resp.op = "register" /\ ~IsIntegerLike(resp.body.proxyPort)) => resp.status = 400
  /\ \A i \in 1..Len(matches) : matches[i].proxyPort.t = "number"

\* C5: register succeeds for every body whose text fields are not blank and
\* whose proxyPort is present and coercible to an integer: it stores exactly
\* one new match (trimmed text, playersConnected 0, maxPlayers 8 by default,
\* createdAt = lastHeartbeat = the time of the call) and returns its id, and a
\* list at that instant shows it with age 0 and recent.
C5_ValidRegisterSucceeds ==
  [][(/\ resp'.op = "register"
      /\ ~IsBlankText(resp'.body.hostName)
      /\ ~IsBlankText(resp'.body.proxyAddress)
      /\ ~IsBlankText(resp'.body.map)
      /\ IsIntegerLike(resp'.body.proxyPort))
       => /\ resp'.status = 200
          /\ Len(matches') = Len(matches) + 1
          /\ \E i \in 1..Len(matches') :
               /\ matches'[i].id = resp'.newId
               /\ matches'[i].hostName = Trim(resp'.body.hostName.s)
               /\ matches'[i].proxyAddress = Trim(resp'.body.proxyAddress.s)
               /\ matches'[i].map = Trim(resp'.body.map.s)
               /\ matches'[i].playersConnected = 0
               /\ IsAbsent(resp'.body.maxPlayers) => matches'[i].maxPlayers = Num(8)
               /\ matches'[i].createdAt = resp'.at
               /\ matches'[i].lastHeartbeat = resp'.at
          /\ \E i \in 1..Len(ListResult(matches', now')) :
               /\ ListResult(matches', now')[i].id = resp'.newId
               /\ ListResult(matches', now')[i].age = 0
               /\ ListResult(matches', now')[i].isRecent
    ]_vars

\* What C6 says of a state, and of a step.
IsStale(m) == now - m.lastHeartbeat >= 120000
C6_StaleHidden ==
  /\ resp.op = "list" =>
       \A i \in 1..Len(matches) : IsStale(matches[i]) => matches[i].id \notin Listed
  /\ resp.op \in {"health", "stats"} =>
       /\ resp.stored = Len(matches)
       /\ resp.active = Cardinality({i \in 1..Len(matches) : ~IsStale(matches[i])})
C6_StepStored ==
  /\ Ids(matches') # Ids(matches) =>
       \/ /\ resp'.op = "register" /\ resp'.status = 200
          /\ resp'.newId \notin Ids(matches)
          /\ Ids(matches') = Ids(matches) \cup {resp'.newId}
       \/ /\ resp'.op = "unregister" /\ resp'.status = 200
          /\ resp'.id \in Ids(matches)
          /\ Ids(matches') = Ids(matches) \ {resp'.id}
  /\ (resp'.op = "unregister" /\ resp'.id \in Ids(matches)) =>
       (resp'.status = 200 /\ resp'.id \notin Ids(matches'))

\* C6: a stale match (now - lastHeartbeat >= 120000) is left out of list and of
\* the active count of /health and /stats but stays stored and counted in the
\* stored total until its unregister, which succeeds; the stored ids change
\* only by a successful register or unregister.
C6_StaleStaysStored == []C6_StaleHidden /\ [][C6_StepStored]_vars

\* C6 witness: /health counts a stored match that is not active, exactly
\* 120000 ms after its register.
C6_Witness ==
  /\ resp.op = "health" /\ resp.stored = 1 /\ resp.active = 0
  /\ now - matches[1].lastHeartbeat = 120000

\* C7: once unregister has removed an id, the id stays out of storage, no list
\* holds it, and every heartbeat and unregister naming it is answered 404.
C7_RemovedForGood ==
  [][\A id \in removed :
       /\ id \in removed'
       /\ ~Has(matches', id)
       /\ resp'.op = "list" => id \notin {resp'.matches[i].id : i \in 1..Len(resp'.matches)}
       /\ (resp'.op \in {"heartbeat", "unregister"} /\ resp'.id = id) => resp'.status = 404
    ]_vars

\* C7 witness: a heartbeat on a removed id answered 404 after a later register.
C7_Witness ==
  /\ resp.op = "heartbeat" /\ resp.status = 404 /\ resp.id \in removed
  /\ \E i \in 1..Len(matches) : matches[i].id > resp.id

\* What C8 says of a step, and of a state.
C8_StepFrame ==
  (resp'.op = "heartbeat" /\ resp'.status = 200) =>
    /\ Len(matches') = Len(matches)
    /\ \A i \in 1..Len(matches) :
         /\ Others(matches'[i]) = Others(matches[i])
         /\ matches'[i].lastHeartbeat =
              IF matches[i].id = resp'.id THEN resp'.at ELSE matches[i].lastHeartbeat
C8_KeepsCreation ==
  \A i \in 1..Len(matches) :
    /\ \E c \in created : Others(c) = Others(matches[i])
    /\ matches[i].playersConnected = 0

\* C8: a successful heartbeat sets the lastHeartbeat of its match to the time
\* of the call and changes nothing else of that match or of any other; every
\* stored match keeps the other fields its register stored, playersConnected 0.
C8_HeartbeatFrame == [][C8_StepFrame]_vars /\ []C8_KeepsCreation

\* C8 witness: a heartbeat refreshed one of two stored matches.
C8_Witness ==
  /\ resp.op = "heartbeat" /\ resp.status = 200 /\ Len(matches) = 2
  /\ Get(matches, resp.id).lastHeartbeat > Get(matches, resp.id).createdAt
  /\ \E i \in 1..2 : matches[i].id # resp.id /\ matches[i].lastHeartbeat # resp.at

\* C9: heartbeat and unregister on an id never issued, or already unregistered,
\* are answered 404 each time, and leave the registry as it was.
C9_UnknownIdFails ==
  [][(/\ resp'.op \in {"heartbeat", "unregister"}
      /\ resp'.id \notin {issued[i] : i \in 1..Len(issued)} \/ resp'.id \in removed)
       => (resp'.status = 404 /\ matches' = matches)
    ]_vars

\* C9 witness: an unregister repeated on a removed id fails while a match is stored.
C9_Witness ==
  /\ resp.op = "unregister" /\ resp.status = 404 /\ resp.id \in removed
  /\ matches # <<>>

\* What C10 says of a state, and of a step.
C10_Distinct ==
  /\ \A i, j \in 1..Len(matches) : matches[i].id = matches[j].id => i = j
  /\ \A i, j \in 1..Len(issued) : issued[i] = issued[j] => i = j
C10_StepOthers ==
  resp'.op \in {"heartbeat", "unregister"} =>
    \A i \in 1..Len(matches) :
      matches[i].id # resp'.id =>
        \E j \in 1..Len(matches') : matches'[j] = matches[i]

\* C10: no two stored matches share an id, register never returns an id it
\* returned before, and a heartbeat or unregister of one id leaves the match
\* of every other id as it was.
C10_UniqueIds == []C10_Distinct /\ [][C10_StepOthers]_vars

\* C10 witness: two ids issued, one of the two stored matches then unregistered.
C10_Witness ==
  /\ Len(issued) = 2 /\ Len(matches) = 1 /\ Cardinality(removed) = 1
  /\ resp.op = "unregister" /\ resp.status = 200

\* C11: list never returns more than 100 entries, and the total it reports is
\* the number of entries it returns.
C11_AtMostHundred ==
  resp.op = "list" => (Len(resp.matches) <= 100 /\ resp.total = Len(resp.matches))

\* C11 witness: a list of 100 entries while 101 matches are active.
C11_Witness ==
  /\ resp.op = "list" /\ resp.total = 100
  /\ Cardinality({i \in 1..Len(matches) : resp.timestamp - matches[i].lastHeartbeat < 120000}) = 101

\* C18: when more than 100 matches are active, the 100 entries list returns
\* are the most recently refreshed: no active match left out has a strictly
\* later lastHeartbeat than one that is returned.
C18_MostRecentKept ==
  resp.op = "list" =>
    LET act == {i \in 1..Len(matches) : resp.timestamp - matches[i].lastHeartbeat < 120000}
        inc == {i \in act : \E k \in 1..Len(resp.matches) : resp.matches[k].id = matches[i].id}
    IN Cardinality(act) > 100 =>
         /\ Cardinality(inc) = 100
         /\ \A i \in act \ inc : \A j \in inc :
              matches[i].lastHeartbeat <= matches[j].lastHeartbeat

\* C12: when at most 100 stored matches are active, list at time `now`
\* returns exactly one entry for every stored match with
\* now - lastHeartbeat < 120000 and none for any other match (one exactly
\* 120000 ms old is left out), and an entry's isRecent flag is true exactly
\* when now - lastHeartbeat < 30000.
C12_ListExactlyActive ==
  resp.op = "list" =>
    LET act == {i \in 1..Len(matches) : resp.timestamp - matches[i].lastHeartbeat < 120000}
        entries(i) == {k \in 1..Len(resp.matches) : resp.matches[k].id = matches[i].id}
    IN Cardinality(act) <= 100 =>
         /\ \A i \in 1..Len(matches) :
              Cardinality(entries(i)) = (IF i \in act THEN 1 ELSE 0)
         /\ \A k \in 1..Len(resp.matches) :
              \E i \in 1..Len(matches) : k \in entries(i)
         /\ \A i \in 1..Len(matches) : \A k \in entries(i) :
              resp.matches[k].isRecent
                <=> (resp.timestamp - matches[i].lastHeartbeat < 30000)

\* C12 witness: a list that leaves out a match exactly 120000 ms old and
\* returns, not flagged recent, one exactly 30000 ms old.
C12_Witness ==
  /\ resp.op = "list"
  /\ \E i \in 1..Len(matches) : resp.timestamp - matches[i].lastHeartbeat = 120000
  /\ \E i \in 1..Len(matches) : \E k \in 1..Len(resp.matches) :
       /\ resp.matches[k].id = matches[i].id
       /\ resp.timestamp - matches[i].lastHeartbeat = 30000
       /\ ~resp.matches[k].isRecent

\* C19: for one caller, the register handler is dispatched at most 15 times
\* within any trailing 60000 ms window, whatever path strings the caller
\* requests it by.
C19_CapPerOperation ==
  Len(SelectSeq(runs, LAMBDA t : now - t < 60000)) <= 15

\* C13: every request passes through the limiter, which records it under the
\* caller's key before any handler runs, and a request the limiter denies
\* changes nothing in the registry: a denied register stores no match, a
\* denied heartbeat changes no lastHeartbeat, a denied unregister removes no
\* match.
C13_DeniedNoEffect ==
  [][rateLimit' # rateLimit =>
       LET k == <<resp'.ip, resp'.path>>
           live == SelectSeq(HistoryIn(rateLimit, k), LAMBDA t : resp'.at - t < 60000)
       IN /\ HistoryIn(rateLimit', k) = Append(live, resp'.at)
          /\ Len(live) >= 15 =>
               (resp'.status = 429 /\ matches' = matches /\ uuidCount' = uuidCount)]_vars

\* C13 witness: a heartbeat request is denied while a match is stored whose
\* lastHeartbeat is older than the request.
C13_Witness ==
  /\ resp.status = 429
  /\ resp.path = "/api/matches/heartbeat"
  /\ \E i \in 1..Len(matches) : matches[i].lastHeartbeat < resp.at

\* C16: rate limits are independent per key: a request reads and changes the
\* history of its own key only, and is denied exactly when that history holds
\* 15 or more calls of the last 60000 ms, whatever the other keys hold.
C16_KeysIndependent ==
  [][rateLimit' # rateLimit =>
       LET k == <<resp'.ip, resp'.path>>
           old == SelectSeq(HistoryIn(rateLimit, k), LAMBDA t : resp'.at - t < 60000)
       IN /\ \A j \in (DOMAIN rateLimit \cup DOMAIN rateLimit') \ {k} :
               HistoryIn(rateLimit', j) = HistoryIn(rateLimit, j)
          /\ HistoryIn(rateLimit', k) = Append(old, resp'.at)
          /\ resp'.status = 429 <=> Len(old) >= 15]_vars

\* C16 witness: a list request is served while the same caller's register
\* path holds 16 calls of the last 60000 ms.
C16_Witness ==
  /\ resp.op = "list" /\ resp.status = 200 /\ resp.ip = "10.0.0.1"
  /\ Len(SelectSeq(HistoryIn(rateLimit, <<"10.0.0.1", "/api/matches/register">>),
                   LAMBDA t : now - t < 60000)) >= 16

\* The calls to the watched key that came before the one just served and are
\* less than 60000 ms older than it, and those that came before the i-th call
\* and were less than 60000 ms older than it.
EarlierInWindow == {i \in 1..(Len(calls) - 1) : resp.at - calls[i] < 60000}
EarlierThan(i) == {j \in 1..(i - 1) : calls[i] - calls[j] < 60000}
WatchedHistory == HistoryIn(rateLimit, <<"10.0.0.1", "/health">>)
OnWatchedKey == resp.op # "none" /\ <<resp.ip, resp.path>> = <<"10.0.0.1", "/health">>

\* C14: a denied request takes a slot of the window like an allowed one: after
\* a call the key's history holds every call of the last 60000 ms, allowed or
\* denied, this one included; and a call with 15 or more earlier calls,
\* allowed or denied, in its trailing window is denied.
C14_DeniedCallsCount ==
  OnWatchedKey =>
    /\ Len(WatchedHistory) = Cardinality(EarlierInWindow) + 1
    /\ WatchedHistory[Len(WatchedHistory)] = resp.at
    /\ Cardinality(EarlierInWindow) >= 15 => resp.status = 429

\* C14 witness: a call is denied when every earlier call of its window was
\* itself denied.
C14_Witness ==
  /\ OnWatchedKey /\ resp.status = 429
  /\ Cardinality(EarlierInWindow) >= 15
  /\ \A i \in EarlierInWindow : Cardinality(EarlierThan(i)) >= 15

\* C15: a call made when every earlier call to its key is 60000 ms old or
\* older is allowed, however many calls came before and however many of them
\* were denied; after a call the key's history holds only timestamps less
\* than 60000 ms old.
C15_RecoversAfterWindow ==
  OnWatchedKey =>
    /\ EarlierInWindow = {} => (resp.status # 429 /\ WatchedHistory = <<resp.at>>)
    /\ \A i \in 1..Len(WatchedHistory) : resp.at - WatchedHistory[i] < 60000

\* C15 witness: a call is allowed after 16 or more earlier calls, one of them
\* denied and the latest exactly 60000 ms old.
C15_Witness ==
  /\ OnWatchedKey /\ resp.status = 200
  /\ Len(calls) >= 17 /\ EarlierInWindow = {}
  /\ resp.at - calls[Len(calls) - 1] = 60000
  /\ \E i \in 1..(Len(calls) - 1) : Cardinality(EarlierThan(i)) >= 15

C20_Ordered ==
  \A i \in 1..Len(matches) :
    matches[i].createdAt <= matches[i].lastHeartbeat /\ matches[i].lastHeartbeat <= now
C20_AgesNotNegative ==
  resp.op = "list" => \A k \in 1..Len(resp.matches) : resp.matches[k].age >= 0
C20_Step ==
  /\ \A i \in 1..Len(matches) : \A j \in 1..Len(matches') :
       matches'[j].id = matches[i].id
         => matches'[j].lastHeartbeat >= matches[i].lastHeartbeat
  /\ (resp'.status = 200 /\ resp'.op \in {"register", "heartbeat"}) =>
       \E j \in 1..Len(matches') :
         /\ matches'[j].id = (IF resp'.op = "register" THEN resp'.newId ELSE resp'.id)
         /\ matches'[j].lastHeartbeat = now'
         /\ \A t \in {now', now' + 119999} : t - matches'[j].lastHeartbeat < 120000

\* C20: with a clock that never goes back, every stored match has
\* createdAt <= lastHeartbeat <= now and its lastHeartbeat never decreases
\* from one step to the next; so list reports no negative age, and a match is
\* not stale until 120000 ms after its latest successful register or
\* heartbeat, which leaves lastHeartbeat at the time it ends.
C20_Timestamps ==
  /\ [](C20_Ordered /\ C20_AgesNotNegative)
  /\ [][C20_Step]_vars

\* C20 witness: list reports an age of a minute or more for a match whose
\* register saw the clock move and whose heartbeat came later.
C20_Witness ==
  /\ resp.op = "list"
  /\ \E i \in 1..Len(matches) : \E k \in 1..Len(resp.matches) :
       /\ resp.matches[k].id = matches[i].id
       /\ resp.matches[k].age >= 1
       /\ \E c \in created :
            /\ c.id = matches[i].id
            /\ c.createdAt < c.lastHeartbeat
            /\ c.lastHeartbeat < matches[i].lastHeartbeat

====
